---- MODULE Spec2Model ----
(***************************************************************************)
(* Model of calculator001.py: the safe arithmetic evaluator safe_eval      *)
(* (ast.parse of an expression followed by the tree walk _eval), the       *)
(* command-line-argument mode and the two interactive loops.               *)
(*                                                                         *)
(* A line of text is a sequence of lexemes separated by blanks; the        *)
(* lexeme " " stands for a run of whitespace.  Numbers are exact           *)
(* rationals n/d tagged with their Python type; results whose magnitude    *)
(* leaves the modelled range, or that a binary float does not hold         *)
(* exactly, are outside the bounds of the model (outcome "Unmodelled") and *)
(* the inputs are restricted to expressions whose evaluation stays inside  *)
(* them.                                                                   *)
(***************************************************************************)
EXTENDS Integers, Sequences, FiniteSets, TLC

\* ---------------------------------------------------------------- bounds
MaxInt == 4          \* integer literals 0..MaxInt (and 7) appear in inputs
MaxAbs == 1024       \* numerators and denominators are kept within MaxAbs

\* ---------------------------------------------------------------- numbers
Abs(x) == IF x < 0 THEN -x ELSE x

RECURSIVE Gcd(_, _)
Gcd(a, b) == IF b = 0 THEN a ELSE Gcd(b, a % b)

\* a Python number: ty is "int", "float", "bool" or "complex"; the value is
\* n/d in lowest terms with d > 0 (a complex value is kept opaque)
Num(ty, n, d) ==
    LET g == Gcd(Abs(n), d)
    IN  [ty |-> ty, n |-> n \div g, d |-> d \div g]

NoVal == [ty |-> "none", n |-> 0, d |-> 1]
ComplexVal == [ty |-> "complex", n |-> 0, d |-> 1]

IsIntLike(v) == v.ty \in {"int", "bool"}
IsComplex(v) == v.ty = "complex"
IsZero(v) == v.n = 0

\* outcomes of an evaluation: a value or a raised exception
Value(v) == [kind |-> "Value", val |-> v, msg |-> ""]
Raise(exc, msg) == [kind |-> exc, val |-> NoVal, msg |-> msg]
Unmodelled == Raise("Unmodelled", "")

\* a float is exact when its denominator is a power of two
RECURSIVE IsPow2(_)
IsPow2(d) == d = 1 \/ (d % 2 = 0 /\ IsPow2(d \div 2))

\* the numbers the model represents exactly
InRange(v) == /\ Abs(v.n) <= MaxAbs
              /\ v.d <= MaxAbs
              /\ v.ty = "float" => IsPow2(v.d)
Ret(v) == IF InRange(v) THEN Value(v) ELSE Unmodelled

\* result type of +, -, *, % on two real operands
Promote(l, r) == IF IsIntLike(l) /\ IsIntLike(r) THEN "int" ELSE "float"

\* floor(n/d) for d > 0
Floor(n, d) == n \div d

\* b ** e for an integer e >= 0 on the rational bn/bd, by repeated
\* multiplication into an/ad, cut off once the magnitude has left the
\* modelled range
RECURSIVE PowAcc(_, _, _, _, _)
PowAcc(bn, bd, e, an, ad) ==
    IF e = 0 \/ Abs(an) > MaxAbs \/ ad > MaxAbs THEN <<an, ad>>
    ELSE PowAcc(bn, bd, e - 1, an * bn, ad * bd)

PowNat(bn, bd, e) ==
    IF Abs(bn) <= 1 /\ bd = 1
    THEN <<IF e = 0 \/ (bn = -1 /\ e % 2 = 0) THEN 1 ELSE bn, 1>>
    ELSE PowAcc(bn, bd, e, 1, 1)

\* left + right (src line 48)
PyAdd(l, r) ==
    IF IsComplex(l) \/ IsComplex(r) THEN Value(ComplexVal)
    ELSE Ret(Num(Promote(l, r), l.n * r.d + r.n * l.d, l.d * r.d))

\* left - right (src line 50)
PySub(l, r) ==
    IF IsComplex(l) \/ IsComplex(r) THEN Value(ComplexVal)
    ELSE Ret(Num(Promote(l, r), l.n * r.d - r.n * l.d, l.d * r.d))

\* left * right (src line 52)
PyMul(l, r) ==
    IF IsComplex(l) \/ IsComplex(r) THEN Value(ComplexVal)
    ELSE Ret(Num(Promote(l, r), l.n * r.n, l.d * r.d))

\* a division that keeps an integer when the quotient of two integers is
\* whole (the behaviour the promotion rule excludes)
PyDivExact(l, r) ==
    IF IsComplex(r) THEN Unmodelled
    ELSE IF IsZero(r) THEN Raise("ZeroDivisionError", "division by zero")
    ELSE IF IsComplex(l) THEN Value(ComplexVal)
    ELSE LET sg == IF r.n < 0 THEN -1 ELSE 1
             q  == Num("float", sg * l.n * r.d, l.d * Abs(r.n))
         IN  Ret(IF q.d = 1 THEN [q EXCEPT !.ty = Promote(l, r)] ELSE q)

\* left / right (src line 54): true division, always float on reals
PyDiv(l, r) ==
    IF IsComplex(r) THEN Unmodelled
    ELSE IF IsZero(r) THEN Raise("ZeroDivisionError", "division by zero")
    ELSE IF IsComplex(l) THEN Value(ComplexVal)
    ELSE LET sg == IF r.n < 0 THEN -1 ELSE 1
         IN  Ret(Num("float", sg * l.n * r.d, l.d * Abs(r.n)))

\* the remainder of a division that truncates towards zero (the sign
\* follows the dividend)
TruncMod(ty, an, ad, bn, bd) ==
    LET sg == IF (an < 0) = (bn < 0) THEN 1 ELSE -1
        q  == sg * (Abs(an * bd) \div Abs(ad * bn))
    IN  Num(ty, an * bd - q * bn * ad, ad * bd)

\* the remainder a - b * floor(a / b) of the rationals a = an/ad, b = bn/bd
FloorMod(ty, an, ad, bn, bd) ==
    LET sg == IF bn < 0 THEN -1 ELSE 1
        q  == Floor(sg * an * bd, ad * Abs(bn))
    IN  Num(ty, an * bd - q * bn * ad, ad * bd)

\* left % right (src line 56): floor-based remainder
PyMod(l, r) ==
    IF IsComplex(l) \/ IsComplex(r)
    THEN Raise("TypeError", "unsupported operand type(s) for %")
    ELSE IF IsZero(r) THEN Raise("ZeroDivisionError", "modulo by zero")
    ELSE Ret(FloorMod(Promote(l, r), l.n, l.d, r.n, r.d))

\* floor(log2(n)) for n >= 1, and 0 below
RECURSIVE Log2(_)
Log2(n) == IF n < 2 THEN 0 ELSE 1 + Log2(n \div 2)

\* sys.float_info.max_exp: a float is smaller than 2 ** FloatMaxExp
FloatMaxExp == 1024

\* a float power whose magnitude is at least 2 ** FloatMaxExp: the base is
\* at least 2 ** k and k times the exponent reaches FloatMaxExp
PowOverflows(l, r) ==
    /\ "float" \in {l.ty, r.ty}
    /\ r.d = 1 /\ r.n >= 0
    /\ Log2(Abs(l.n) \div l.d) * r.n >= FloatMaxExp

\* left ** right (src line 58)
PyPow(l, r) ==
    IF IsComplex(l) \/ IsComplex(r) THEN Unmodelled
    ELSE IF PowOverflows(l, r)
    THEN Raise("OverflowError", "(34, 'Numerical result out of range')")
    ELSE IF r.d = 1
    THEN \* integral exponent
         IF r.n >= 0
         THEN LET p == PowNat(l.n, l.d, r.n)
              IN  Ret(Num(Promote(l, r), p[1], p[2]))
         ELSE IF IsZero(l)
              THEN Raise("ZeroDivisionError",
                         "0.0 cannot be raised to a negative power")
              ELSE LET p  == PowNat(l.n, l.d, -r.n)
                       sg == IF p[1] < 0 THEN -1 ELSE 1
                   IN  Ret(Num("float", sg * p[2], Abs(p[1])))
    ELSE \* fractional exponent
         IF l.n < 0 THEN Value(ComplexVal)
         ELSE IF IsZero(l)
              THEN IF r.n > 0 THEN Value(Num("float", 0, 1))
                   ELSE Raise("ZeroDivisionError",
                              "0.0 cannot be raised to a negative power")
         ELSE IF l.n = 1 /\ l.d = 1 THEN Value(Num("float", 1, 1))
         ELSE Unmodelled

\* +val (src line 65)
PyPos(v) == IF IsComplex(v) THEN Value(v)
            ELSE Value(Num(IF v.ty = "bool" THEN "int" ELSE v.ty, v.n, v.d))

\* -val (src line 67)
PyNeg(v) == IF IsComplex(v) THEN Value(v)
            ELSE Value(Num(IF v.ty = "bool" THEN "int" ELSE v.ty, -v.n, v.d))

\* ---------------------------------------------------------------- lexemes
IntLitVals == (0 .. MaxInt) \cup {7}
IntLits == {ToString(n) : n \in IntLitVals}
FloatLits == {"0.0", "0.5", "2.0", "1e3"}
BoolLits == {"True"}
StrLits == {"''"}
Names == {"a", "_", "quit", "QUIT", "exit", "y", "YES", "n", "No"}
Keywords == {"import"}
BinOpLexemes == {"+", "-", "*", "/", "%", "**", "//"}
UnaryLexemes == {"+", "-", "~"}

\* c.isalpha() holds of some character of the lexeme (src lines 91, 144)
AlphaLexemes == (Names \cup Keywords \cup BoolLits \cup {"1e3"}) \ {"_"}

\* the value an ast.Constant carries for a literal lexeme
ConstValue(tok) ==
    IF tok \in IntLits
    THEN Num("int", CHOOSE n \in IntLitVals : ToString(n) = tok, 1)
    ELSE IF tok = "0.0" THEN Num("float", 0, 1)
    ELSE IF tok = "0.5" THEN Num("float", 1, 2)
    ELSE IF tok = "2.0" THEN Num("float", 2, 1)
    ELSE IF tok = "1e3" THEN Num("float", 1000, 1)
    ELSE IF tok = "True" THEN Num("bool", 1, 1)
    ELSE [ty |-> "str", n |-> 0, d |-> 1]

\* str.strip(): drop leading and trailing whitespace (src lines 80, 109)
RECURSIVE LStrip(_)
LStrip(t) == IF t # <<>> /\ Head(t) = " " THEN LStrip(Tail(t)) ELSE t

RECURSIVE RStrip(_)
RStrip(t) == IF t # <<>> /\ t[Len(t)] = " "
             THEN RStrip(SubSeq(t, 1, Len(t) - 1)) ELSE t

\* a read that keeps the whitespace around the line (no call of strip())
NoStrip(t) == t

Strip(t) == RStrip(LStrip(t))

\* str.lower() on one lexeme (src lines 87, 109)
LowerLexeme(tok) ==
    IF tok = "QUIT" THEN "quit"
    ELSE IF tok = "YES" THEN "yes"
    ELSE IF tok = "No" THEN "no"
    ELSE IF tok = "True" THEN "true"
    ELSE tok

\* a comparison that keeps the letter case (no call of lower())
NoLower(t) == t

Lower(t) == [i \in 1 .. Len(t) |-> LowerLexeme(t[i])]

\* a loop without the letter check
NoAlphaCheck(t) == FALSE

\* any(c.isalpha() for c in s) (src lines 91, 144)
HasAlpha(t) == \E i \in 1 .. Len(t) : t[i] \in AlphaLexemes

\* ' '.join(sys.argv[1:]) (src line 120): the arguments, blank-separated
RECURSIVE Join(_)
Join(args) == IF args = <<>> THEN <<>>
              ELSE IF Len(args) = 1 THEN args[1]
              ELSE args[1] \o <<" ">> \o Join(Tail(args))

\* ---------------------------------------------------------------- ast.parse
\* tree nodes
Constant(v) == [node |-> "Constant", value |-> v]
BinOp(op, l, r) == [node |-> "BinOp", op |-> op, left |-> l, right |-> r]
UnaryOp(op, x) == [node |-> "UnaryOp", op |-> op, operand |-> x]
Other(kind) == [node |-> kind]
Expression(b) == [node |-> "Expression", body |-> b]

BinOpName(tok) ==
    CASE tok = "+" -> "Add" [] tok = "-" -> "Sub" [] tok = "*" -> "Mult"
      [] tok = "/" -> "Div" [] tok = "%" -> "Mod" [] tok = "**" -> "Pow"
      [] tok = "//" -> "FloorDiv"

UnaryOpName(tok) ==
    CASE tok = "+" -> "UAdd" [] tok = "-" -> "USub" [] tok = "~" -> "Invert"

\* the tokenizer drops the whitespace between lexemes
Tokens(t) == SelectSeq(t, LAMBDA x : x # " ")

Tok(ts, i) == IF i <= Len(ts) THEN ts[i] ELSE "<EOF>"

\* result of a parsing function: the node and the position after it
Parsed(nd, i) == [ok |-> TRUE, node |-> nd, pos |-> i]
Fail == [ok |-> FALSE, node |-> Other("none"), pos |-> 0]

\* binding strength of the grammar levels of Python expressions:
\* comparison < sum < term < factor (unary operators) < power < primary
LowestPrec == 1
FactorPrec == 4
PrimaryPrec == 6

\* a grammar without precedence between the arithmetic operators
FlatBinaryPrec(tok) ==
    CASE tok = "<" -> 1
      [] tok \in {"+", "-", "*", "/", "//", "%"} -> 3
      [] tok = "**" -> 5

\* the level at which a binary operator is applied
BinaryPrec(tok) ==
    CASE tok = "<" -> 1
      [] tok \in {"+", "-"} -> 2
      [] tok \in {"*", "/", "//", "%"} -> 3
      [] tok = "**" -> 5

\* a grammar in which every binary operator, '**' too, groups left to right
LeftAssocOperandPrec(tok) ==
    IF tok = "**" THEN 6 ELSE IF tok = "<" THEN 2
    ELSE IF tok \in {"+", "-"} THEN 3 ELSE 4

\* the level of the right operand: one above the operator's for the
\* left-associative operators; a factor for '**' (power: primary
\* ['**' factor]), which makes it right-associative
RightOperandPrec(tok) ==
    IF tok = "**" THEN FactorPrec ELSE BinaryPrec(tok) + 1

\* a grammar in which a unary operator takes a primary, so that it binds
\* tighter than '**'
TightUnaryOperandPrec(tok) == PrimaryPrec

\* the level of the operand of a unary operator (factor: ('+' | '-' |
\* '~') factor), so that '**' binds tighter than a unary operator on
\* its left
UnaryOperandPrec(tok) == FactorPrec

\* the node a binary operator builds (a comparison chain is one Compare)
Combine(tok, l, r) ==
    IF tok = "<" THEN Other("Compare") ELSE BinOp(BinOpName(tok), l, r)

RECURSIVE ParseExpr(_, _, _), ParseTail(_, _, _)

\* an operand at level prec or tighter, starting at position i:
\*   ('+' | '-' | '~') factor
\*   | NUMBER | STRING+ | True | NAME | '(' ')' | '(' expression ')'
\* followed by its trailers and the operators that bind at least at prec
ParseExpr(ts, i, prec) ==
    LET tok == Tok(ts, i)
    IN  IF tok \in UnaryLexemes
        THEN IF prec > FactorPrec THEN Fail
             ELSE LET f == ParseExpr(ts, i + 1, UnaryOperandPrec(tok))
                  IN  IF f.ok
                      THEN ParseTail(ts, Parsed(UnaryOp(UnaryOpName(tok),
                                                        f.node), f.pos), prec)
                      ELSE Fail
        ELSE IF tok \in IntLits \cup FloatLits \cup BoolLits
        THEN ParseTail(ts, Parsed(Constant(ConstValue(tok)), i + 1), prec)
        ELSE IF tok \in StrLits
        THEN IF Tok(ts, i + 1) \in StrLits THEN ParseExpr(ts, i + 1, prec)
             ELSE ParseTail(ts, Parsed(Constant(ConstValue(tok)), i + 1),
                            prec)
        ELSE IF tok \in Names
        THEN ParseTail(ts, Parsed(Other("Name"), i + 1), prec)
        ELSE IF tok = "("
        THEN IF Tok(ts, i + 1) = ")"
             THEN ParseTail(ts, Parsed(Other("Tuple"), i + 2), prec)
             ELSE LET e == ParseExpr(ts, i + 1, LowestPrec)
                  IN  IF e.ok /\ Tok(ts, e.pos) = ")"
                      THEN ParseTail(ts, Parsed(e.node, e.pos + 1), prec)
                      ELSE Fail
        ELSE Fail

\* what follows the operand acc: a call trailer '(' [arg] ')' with arg an
\* expression, '*' expression or '**' expression; or a binary operator
\* that binds at least at prec, with its right operand
ParseTail(ts, acc, prec) ==
    LET tok == Tok(ts, acc.pos)
    IN  IF ~acc.ok THEN acc
        ELSE IF tok = "("
        THEN IF Tok(ts, acc.pos + 1) = ")"
             THEN ParseTail(ts, Parsed(Other("Call"), acc.pos + 2), prec)
             ELSE LET start == IF Tok(ts, acc.pos + 1) \in {"*", "**"}
                               THEN acc.pos + 2 ELSE acc.pos + 1
                      e == ParseExpr(ts, start, LowestPrec)
                  IN  IF e.ok /\ Tok(ts, e.pos) = ")"
                      THEN ParseTail(ts, Parsed(Other("Call"), e.pos + 1),
                                     prec)
                      ELSE Fail
        ELSE IF tok \in BinOpLexemes \cup {"<"} /\ BinaryPrec(tok) >= prec
        THEN LET r == ParseExpr(ts, acc.pos + 1, RightOperandPrec(tok))
             IN  IF r.ok
                 THEN ParseTail(ts, Parsed(Combine(tok, acc.node, r.node),
                                           r.pos), prec)
                 ELSE Fail
        ELSE acc

\* ast.parse(expr, mode='eval') (src line 34): the Expression tree, or a
\* SyntaxError for text that is not exactly one expression (leading
\* whitespace is an unexpected indent)
AstParse(expr) ==
    LET ts == Tokens(expr)
        e  == ParseExpr(ts, 1, LowestPrec)
    IN  IF expr # <<>> /\ Head(expr) = " " THEN Fail
        ELSE IF e.ok /\ e.pos = Len(ts) + 1
        THEN Parsed(Expression(e.node), e.pos)
        ELSE Fail

\* ---------------------------------------------------------------- safe_eval
\* _is_number (src lines 16-25): a Constant holding an int or a float is a
\* number (bool is a subclass of int, so True passes the isinstance test);
\* on interpreters that parse every literal to ast.Constant no node is an
\* ast.Num, and anything else is not a numeric literal
IsNumber(nd) ==
    IF nd.node = "Constant"
    THEN IF nd.value.ty \in {"int", "float", "bool"}
         THEN Value(nd.value)
         ELSE Raise("ValueError", "Only numbers are allowed")
    ELSE Raise("ValueError", "Expected a numeric literal")

\* the operator dispatch of a BinOp (src lines 47-59)
ApplyBinOp(op, l, r) ==
    CASE op = "Add" -> PyAdd(l, r)
      [] op = "Sub" -> PySub(l, r)
      [] op = "Mult" -> PyMul(l, r)
      [] op = "Div" -> PyDiv(l, r)
      [] op = "Mod" -> PyMod(l, r)
      [] op = "Pow" -> PyPow(l, r)
      [] OTHER -> Raise("ValueError", "Unsupported binary operator")

\* the operator dispatch of a UnaryOp (src lines 64-68)
ApplyUnaryOp(op, v) ==
    CASE op = "UAdd" -> PyPos(v)
      [] op = "USub" -> PyNeg(v)
      [] OTHER -> Raise("ValueError", "Unsupported unary operator")

\* _eval (src lines 38-71): operands are evaluated, left then right,
\* before the operator is looked at
RECURSIVE Eval(_)
Eval(nd) ==
    IF nd.node = "Expression" THEN Eval(nd.body)
    ELSE IF nd.node = "BinOp"
    THEN LET left == Eval(nd.left)
         IN  IF left.kind # "Value" THEN left
             ELSE LET right == Eval(nd.right)
                  IN  IF right.kind # "Value" THEN right
                      ELSE ApplyBinOp(nd.op, left.val, right.val)
    ELSE IF nd.node = "UnaryOp"
    THEN LET val == Eval(nd.operand)
         IN  IF val.kind # "Value" THEN val
             ELSE ApplyUnaryOp(nd.op, val.val)
    ELSE IsNumber(nd)

\* safe_eval (src lines 28-73): a SyntaxError of ast.parse is re-raised as
\* ValueError("Syntax error: ...")
safe_eval(expr) ==
    LET tree == AstParse(expr)
    IN  IF ~tree.ok THEN Raise("ValueError", "Syntax error")
        ELSE Eval(tree.node)

\* ---------------------------------------------------------------- inputs
NumLits == IntLits \cup {"0.0", "0.5", "2.0"}
ParenLexemes == {"(", ")"}
Lexemes == NumLits \cup {"1e3"} \cup BoolLits \cup StrLits \cup Names
           \cup Keywords \cup BinOpLexemes \cup UnaryLexemes
           \cup ParenLexemes \cup {"<", ";", " "}

AnyAtoms == NumLits \cup {"a", "True", "''", "1e3", "_"}
AnyOps == BinOpLexemes \cup {"<"}
SmallInts == {ToString(n) : n \in 0 .. MaxInt}
MixAtoms == {"0", "1", "0.5", "a"}
Signs == {"+", "-"}

\* the texts given on the command line
Texts ==
    {<<>>}
    \cup {<<a>> : a \in Lexemes}
    \cup {<<a, b>> : a, b \in Lexemes}
    \cup {<<a, o, b>> : a, b \in AnyAtoms, o \in AnyOps}
    \cup {<<u, a, o, b>> : u \in UnaryLexemes, a, b \in NumLits,
                           o \in BinOpLexemes}
    \cup {<<a, o, u, b>> : u \in UnaryLexemes, a, b \in NumLits,
                           o \in BinOpLexemes}
    \cup {<<u, a, o, v, b>> : u, v \in Signs, a, b \in NumLits,
                              o \in BinOpLexemes}
    \cup {<<a, o, b, q, c>> : a, b, c \in SmallInts, o, q \in BinOpLexemes}
    \cup {<<a, o, b, q, c>> : a, b, c \in MixAtoms, o, q \in BinOpLexemes}
    \cup {<<"(", a, o, b, ")", q, c>> : a, b, c \in SmallInts,
                                        o, q \in BinOpLexemes}
    \cup {<<a, o, "(", b, q, c, ")">> : a, b, c \in SmallInts,
                                        o, q \in BinOpLexemes}
    \cup {<<"(", u, a, ")", o, b>> : u \in Signs, a, b \in NumLits,
                                     o \in BinOpLexemes}
    \cup {<<"(", "-", a, ")", "**", "0.5", o, b>> :
              a \in {"1", "2"}, b \in NumLits, o \in BinOpLexemes}
    \cup {<<"(", a, o, b>> : a, b \in {"2", "3"}, o \in {"+", "*"}}
    \cup {<<" ", a, o, b, " ">> : a, b \in {"1", "0", "a"}, o \in {"+", "/"}}
    \cup {<<a, " ", o, b>> : a, b \in {"1", "0"}, o \in {"+", "/"}}
    \cup {<<" ", w, " ">> : w \in Names}

\* the lines typed at an expression prompt
LineAtoms == {"0", "1", "0.0", "0.5", "_", "''"}
Lines ==
    {<<>>, <<" ">>}
    \cup {<<a>> : a \in Lexemes}
    \cup {<<a, o, b>> : a, b \in LineAtoms, o \in AnyOps}
    \cup {<<u, a>> : u \in UnaryLexemes, a \in NumLits \cup {"_"}}
    \cup {<<"-", a, "%", b>> : a, b \in IntLits}
    \cup {<<"(", "-", "1", ")", "**", "0.5", o, b>> :
              b \in {"0", "0.0", "2"}, o \in BinOpLexemes}
    \cup {<<"(", a, o, b>> : a, b \in {"2", "3"}, o \in {"+", "*"}}
    \cup {<<" ", a, o, b, " ">> : a, b \in {"1", "0", "a"}, o \in {"+", "/"}}
    \cup {<<" ", w, " ">> : w \in Names}

\* the command lines: one argument holding the text, no argument at all,
\* or the text split into several arguments
Argvs ==
    {<<t>> : t \in Texts}
    \cup {<<>>}
    \cup {<<<<a>>, <<o>>, <<b>>>> : a, b \in {"2", "0", "a", "1e3"},
                                    o \in {"+", "/", "//", "**"}}
    \cup {<<<<a>>, <<b>>>> : a, b \in {"1", "-"}}

\* the ways a blocking read ends without a line (src lines 81, 133)
Signals == {"EOFError", "KeyboardInterrupt"}

\* ---------------------------------------------------------------- state
VARIABLES
    argv,      \* sys.argv[1:], a sequence of texts
    pc,        \* where the program is: "start", the prompt it blocks at
               \* ("top_prompt", "top_confirm", "repl_prompt",
               \* "repl_confirm"), "exited" or "crashed"
    s,         \* the stripped line read at the last expression prompt
    expr,      \* the argument of the safe_eval call of the last step
    result,    \* the outcome of that call (NoCall when none was made)
    out,       \* what the last step printed, a sequence of messages
    status,    \* exit status of the process (-1 while it runs)
    ans,       \* the stripped, lower-cased answer read at the last
               \* confirmation prompt
    input      \* what the last call of input() did: the line it returned
               \* or the exception it raised

vars == <<argv, pc, s, expr, result, out, status, ans, input>>

NoCall == Raise("NoCall", "")

\* outcomes of input() (src lines 80-81, 109, 132-133, 162)
Returned(line) == [kind |-> "line", line |-> line]
Raised(sig) == [kind |-> sig, line |-> <<>>]
NoInput == [kind |-> "none", line |-> <<>>]

\* printed messages
Msg(text, v, detail) == [text |-> text, val |-> v, detail |-> detail]
AnswerIs(v) == Msg("Answer is:", v, "")
Line(text) == Msg(text, NoVal, "")

\* the inputs are those the model evaluates exactly
Modelled(t) == safe_eval(t).kind # "Unmodelled"

Init ==
    /\ argv \in Argvs
    /\ pc = "start"
    /\ s = <<>>
    /\ expr = <<>>
    /\ result = NoCall
    /\ out = <<>>
    /\ status = -1
    /\ ans = <<>>
    /\ input = NoInput

\* ------------------------------------------------- command-line mode
\* a command-line mode that prints the error and runs off the end of the
\* program (no sys.exit(1))
MainCliNoExit ==
    /\ pc = "start"
    /\ Len(argv) > 0
    /\ Modelled(Join(argv))
    /\ LET r == safe_eval(Join(argv))
       IN  /\ expr' = Join(argv)
           /\ result' = r
           /\ out' = IF r.kind = "Value" THEN <<AnswerIs(r.val)>>
                     ELSE <<Msg("Error:", NoVal, r.msg)>>
           /\ status' = 0
           /\ pc' = "exited"
    /\ UNCHANGED <<argv, s, ans, input>>

\* src lines 119-126: evaluate the joined arguments once and exit
MainCli ==
    /\ pc = "start"
    /\ Len(argv) > 0
    /\ Modelled(Join(argv))
    /\ LET r == safe_eval(Join(argv))
       IN  /\ expr' = Join(argv)
           /\ result' = r
           /\ IF r.kind = "Value"
              THEN /\ out' = <<AnswerIs(r.val)>>
                   /\ status' = 0
                   /\ pc' = "exited"
              ELSE /\ out' = <<Msg("Error:", NoVal, r.msg)>>
                   /\ status' = 1
                   /\ pc' = "exited"
    /\ UNCHANGED <<argv, s, ans, input>>

\* src lines 127-129: no argument, print the banner and prompt
MainInteractive ==
    /\ pc = "start"
    /\ Len(argv) = 0
    /\ pc' = "top_prompt"
    /\ out' = <<Line("Enter expressions (or press Enter to open REPL). Type 'quit' to exit.")>>
    /\ UNCHANGED <<argv, s, expr, result, status, ans, input>>

\* ------------------------------------------------- interactive loops
\* the two blocking reads of a loop ("top" or "repl")
PromptOf(loop) == IF loop = "top" THEN "top_prompt" ELSE "repl_prompt"
ConfirmOf(loop) == IF loop = "top" THEN "top_confirm" ELSE "repl_confirm"

\* a top-level loop that goes on after repl() has returned (no break)
LeaveToCaller(loop) == IF loop = "repl" THEN "top_prompt" ELSE "exited"

\* where the program is once a loop is left: the break of the top-level
\* loop is the end of the program (src lines 135, 141), and so is the end
\* of repl(), whose caller breaks at once (src lines 83, 88, 113, 138-139)
Leave(loop) == "exited"

\* the text input() shows at a blocking read (src lines 80, 109, 132, 162)
Prompt(p) ==
    IF p \in {"top_prompt", "repl_prompt"} THEN "> "
    ELSE IF p \in {"top_confirm", "repl_confirm"}
    THEN "Do you want another calculation? (y/n): "
    ELSE ""

\* the try/except around safe_eval (src lines 95-105, 148-158)
Report(r) ==
    IF r.kind = "Value" THEN AnswerIs(r.val)
    ELSE IF r.kind = "SyntaxError"
    THEN Line("Invalid expression: syntax error")
    ELSE IF r.kind = "ValueError"
    THEN Msg("Invalid expression:", NoVal, r.msg)
    ELSE IF r.kind = "ZeroDivisionError"
    THEN Line("Math error: division by zero")
    ELSE Msg("Error:", NoVal, r.msg)

\* one pass of a prompt loop on the line read (src lines 85-105 for the
\* REPL sub-loop, 137-158 for the top-level loop), up to the next read
ReadLine(loop, line) ==
    /\ pc = PromptOf(loop)
    /\ input' = Returned(line)
    /\ LET t == Strip(line)
       IN  /\ s' = t
           /\ IF t = <<>>
              THEN IF loop = "top"
                   THEN \* repl() is entered (src line 138)
                        /\ pc' = "repl_prompt"
                        /\ out' = <<Line("Calculator REPL. Type 'quit' or 'exit' to leave.")>>
                        /\ UNCHANGED status
                        /\ expr' = <<>> /\ result' = NoCall
                   ELSE \* continue (src line 86)
                        /\ pc' = "repl_prompt"
                        /\ out' = <<>>
                        /\ UNCHANGED status
                        /\ expr' = <<>> /\ result' = NoCall
              ELSE IF Lower(t) \in {<<"quit">>, <<"exit">>}
              THEN \* break, and the program runs off its end
                   /\ pc' = Leave(loop)
                   /\ status' = 0
                   /\ out' = <<>>
                   /\ expr' = <<>> /\ result' = NoCall
              ELSE IF HasAlpha(t)
              THEN /\ pc' = PromptOf(loop)
                   /\ out' = <<Line("Only numbers and operators are allowed")>>
                   /\ UNCHANGED status
                   /\ expr' = <<>> /\ result' = NoCall
              ELSE LET r == safe_eval(t)
                   IN  /\ r.kind # "Unmodelled"
                       /\ expr' = t
                       /\ result' = r
                       /\ out' = <<Report(r)>>
                       /\ pc' = ConfirmOf(loop)
                       /\ UNCHANGED status
    /\ UNCHANGED <<argv, ans>>

TopReadLine == \E line \in Lines : ReadLine("top", line)
ReplReadLine == \E line \in Lines : ReadLine("repl", line)

\* end of input or an interrupt at an expression prompt (src lines 81-83,
\* 133-135): print a newline, leave the loop, the program ends
ReadSignal(loop, sig) ==
    /\ pc = PromptOf(loop)
    /\ input' = Raised(sig)
    /\ pc' = Leave(loop)
    /\ status' = 0
    /\ out' = <<Line("")>>
    /\ expr' = <<>> /\ result' = NoCall
    /\ UNCHANGED <<argv, s, ans>>

TopReadSignal == \E sig \in Signals : ReadSignal("top", sig)
ReplReadSignal == \E sig \in Signals : ReadSignal("repl", sig)

\* the answers typed at the confirmation prompt
Answers == {<<"y">>, <<"YES">>, <<"n">>, <<"No">>, <<" ", "n", " ">>,
            <<>>, <<"quit">>, <<"exit">>, <<"1">>, <<"y", "y">>, <<"a">>}

\* one answer to 'Do you want another calculation? (y/n): '
\* (src lines 108-114, 161-167)
Confirm(loop, line) ==
    /\ pc = ConfirmOf(loop)
    /\ input' = Returned(line)
    /\ ans' = Lower(Strip(line))
    /\ LET a == Lower(Strip(line))
       IN  IF a \in {<<"y">>, <<"yes">>}
           THEN /\ pc' = PromptOf(loop)
                /\ out' = <<>>
                /\ UNCHANGED status
           ELSE IF a \in {<<"n">>, <<"no">>}
           THEN \* sys.exit(0), or return from repl() and break
                /\ pc' = Leave(loop)
                /\ status' = 0
                /\ out' = <<>>
           ELSE /\ pc' = ConfirmOf(loop)
                /\ out' = <<Line("Please answer 'y' or 'n'.")>>
                /\ UNCHANGED status
    /\ expr' = <<>> /\ result' = NoCall
    /\ UNCHANGED <<argv, s>>

TopConfirm == \E line \in Answers : Confirm("top", line)
ReplConfirm == \E line \in Answers : Confirm("repl", line)

\* end of input or an interrupt at the confirmation prompt: input() is
\* not inside a try (src lines 109, 162), the exception is unhandled
ConfirmSignal(loop, sig) ==
    /\ pc = ConfirmOf(loop)
    /\ input' = Raised(sig)
    /\ pc' = "crashed"
    /\ status' = 1
    /\ out' = <<Msg("Traceback", NoVal, sig)>>
    /\ expr' = <<>> /\ result' = NoCall
    /\ UNCHANGED <<argv, s, ans>>

TopConfirmSignal == \E sig \in Signals : ConfirmSignal("top", sig)
ReplConfirmSignal == \E sig \in Signals : ConfirmSignal("repl", sig)

Next ==
    \/ MainCli
    \/ MainInteractive
    \/ TopReadLine
    \/ TopReadSignal
    \/ TopConfirm
    \/ TopConfirmSignal
    \/ ReplReadLine
    \/ ReplReadSignal
    \/ ReplConfirm
    \/ ReplConfirmSignal

Spec == Init /\ [][Next]_vars

\* ---------------------------------------------------------------- claims
\* a safe_eval call was made in the last step
Called == result.kind # "NoCall"

\* the grammar of the calculator: numeric (int or float) literals, the
\* binary operators + - * / % ** and the unary operators + -
RECURSIVE InGrammar(_)
InGrammar(nd) ==
    IF nd.node = "Constant" THEN nd.value.ty \in {"int", "float"}
    ELSE IF nd.node = "BinOp"
    THEN /\ nd.op \in {"Add", "Sub", "Mult", "Div", "Mod", "Pow"}
         /\ InGrammar(nd.left)
         /\ InGrammar(nd.right)
    ELSE IF nd.node = "UnaryOp"
    THEN nd.op \in {"UAdd", "USub"} /\ InGrammar(nd.operand)
    ELSE FALSE

\* the text is an expression of the grammar
Conforms(t) == AstParse(t).ok /\ InGrammar(AstParse(t).node.body)

\* C1: safe_eval returns a value only for expressions of the grammar, and
\* every other input raises a validation or syntax error (both are the
\* ValueError of safe_eval).
C1_OnlyGrammarEvaluates ==
    Called =>
        /\ result.kind = "Value" => Conforms(expr)
        /\ ~Conforms(expr) => result.kind = "ValueError"

\* C2: an input with a construct outside the grammar never fails with a
\* runtime error (division by zero, overflow, type error): it is rejected
\* before anything is evaluated.
C2_RejectedBeforeEvaluation ==
    (Called /\ ~Conforms(expr)) =>
        result.kind \notin {"ZeroDivisionError", "OverflowError", "TypeError"}

\* C3: every text with an alphabetic character handed to safe_eval is
\* rejected with a validation error and never evaluates to a number, in
\* command-line mode as in interactive mode.
C3_LettersRejectedEverywhere ==
    (Called /\ HasAlpha(expr)) =>
        /\ result.kind = "ValueError"
        /\ Len(argv) > 0 => status = 1

\* C4: end of input or an interrupt at any prompt never surfaces as an
\* unhandled error.
C4_SignalsNeverUnhandled ==
    pc # "crashed"

\* evaluation of the tree applies a / or % to a right operand that is the
\* integer 0 or the float 0.0
RECURSIVE ReachesZeroDivisor(_)
ReachesZeroDivisor(nd) ==
    IF nd.node = "BinOp"
    THEN \/ ReachesZeroDivisor(nd.left)
         \/ /\ Eval(nd.left).kind = "Value"
            /\ \/ ReachesZeroDivisor(nd.right)
               \/ /\ nd.op \in {"Div", "Mod"}
                  /\ Eval(nd.right).kind = "Value"
                  /\ ~IsComplex(Eval(nd.right).val)
                  /\ IsZero(Eval(nd.right).val)
    ELSE IF nd.node = "UnaryOp" THEN ReachesZeroDivisor(nd.operand)
    ELSE FALSE

\* C5: whenever a / or % is evaluated with a zero right operand the
\* outcome is the division-by-zero error, and an interactive loop reports
\* it as 'Math error: division by zero' and goes on to its next prompt.
C5_ZeroDivisorIsDivisionByZero ==
    (Called /\ AstParse(expr).ok /\ ReachesZeroDivisor(AstParse(expr).node.body))
        => /\ result.kind = "ZeroDivisionError"
           /\ Len(argv) = 0 =>
                  /\ out = <<Line("Math error: division by zero")>>
                  /\ pc \in {"top_confirm", "repl_confirm"}

\* the outcome of a literal, and of an operator applied to the outcomes of
\* its operands (an exception of an operand is the outcome)
Lit(tok) == Value(ConstValue(tok))

Bin(op, lo, ro) ==
    IF lo.kind # "Value" THEN lo
    ELSE IF ro.kind # "Value" THEN ro
    ELSE ApplyBinOp(op, lo.val, ro.val)

Un(op, o) == IF o.kind # "Value" THEN o ELSE ApplyUnaryOp(op, o.val)

\* the promotion rule as stated: / gives a float, any other operator an
\* int for two integer operands and a float otherwise
StatedPromotion(op, l, r, v) ==
    IF op = "Div" THEN v.ty = "float"
    ELSE v.ty = Promote(l, r)

\* the promotion rule of the code
ActualPromotion(op, l, r, v) ==
    IF IsComplex(l) \/ IsComplex(r) THEN v.ty = "complex"
    ELSE IF op = "Div" THEN v.ty = "float"
    ELSE IF op = "Pow"
    THEN IF IsIntLike(l) /\ IsIntLike(r) /\ r.n >= 0 THEN v.ty = "int"
         ELSE IF l.n < 0 /\ r.d # 1 THEN v.ty = "complex"
         ELSE v.ty = "float"
    ELSE v.ty = Promote(l, r)

\* the rule holds at every binary operation of the tree that produced a
\* result
RECURSIVE PromotionHolds(_, _)
PromotionHolds(nd, stated) ==
    IF nd.node = "BinOp"
    THEN /\ PromotionHolds(nd.left, stated)
         /\ PromotionHolds(nd.right, stated)
         /\ Eval(nd).kind = "Value" =>
                IF stated
                THEN StatedPromotion(nd.op, Eval(nd.left).val,
                                     Eval(nd.right).val, Eval(nd).val)
                ELSE ActualPromotion(nd.op, Eval(nd.left).val,
                                     Eval(nd.right).val, Eval(nd).val)
    ELSE IF nd.node = "UnaryOp" THEN PromotionHolds(nd.operand, stated)
    ELSE TRUE

IsNegPower(t) ==
    /\ Len(t) = 4
    /\ t[1] = "-" /\ t[2] \in NumLits /\ t[3] = "**" /\ t[4] \in NumLits

\* C7 (as stated): a unary sign binds tighter than ** on its left operand,
\* '- a ** b' is evaluated as (-a) ** b.
C7_UnaryBindsTighterThanPower ==
    (Called /\ IsNegPower(expr)) =>
        result = Bin("Pow", Un("USub", Lit(expr[2])), Lit(expr[4]))

\* C7 (amended): ** binds tighter than a unary sign on its left, '- a ** b'
\* is evaluated as -(a ** b) (and '-2 ** 2' gives -4).
C7_PowerBindsTighterThanUnary ==
    (Called /\ IsNegPower(expr)) =>
        result = Un("USub", Bin("Pow", Lit(expr[2]), Lit(expr[4])))

\* '-2 ** 2' was evaluated to -4
C7_Witness ==
    /\ expr = <<"-", "2", "**", "2">>
    /\ result = Value(Num("int", -4, 1))

\* C8: ** is right-associative, 'a ** b ** c' evaluates to a ** (b ** c) for
\* number literals a, b, c.
C8_PowerRightAssociative ==
    (/\ Called
     /\ Len(expr) = 5
     /\ expr[2] = "**" /\ expr[4] = "**"
     /\ {expr[1], expr[3], expr[5]} \subseteq NumLits)
        => result = Bin("Pow", Lit(expr[1]),
                        Bin("Pow", Lit(expr[3]), Lit(expr[5])))

\* '2 ** 3 ** 2' was evaluated to 512
C8_Witness ==
    /\ expr = <<"2", "**", "3", "**", "2">>
    /\ result = Value(Num("int", 512, 1))

AdditiveLexemes == {"+", "-"}
MultiplicativeLexemes == {"*", "/", "%"}

\* C9: * / % bind tighter than + -, operators of equal precedence group
\* left to right, and parentheses override: for literals a, b, c
\* 'a + b * c' is a + (b * c), 'a - b - c' is (a - b) - c,
\* '(a + b) * c' is (a + b) * c and 'a * (b + c)' is a * (b + c).
C9_Precedence ==
    /\ (/\ Called
        /\ Len(expr) = 5
        /\ {expr[1], expr[3], expr[5]} \subseteq NumLits
        /\ {expr[2], expr[4]} \subseteq
               AdditiveLexemes \cup MultiplicativeLexemes)
          => IF expr[2] \in AdditiveLexemes
                /\ expr[4] \in MultiplicativeLexemes
             THEN result = Bin(BinOpName(expr[2]), Lit(expr[1]),
                               Bin(BinOpName(expr[4]), Lit(expr[3]),
                                   Lit(expr[5])))
             ELSE result = Bin(BinOpName(expr[4]),
                               Bin(BinOpName(expr[2]), Lit(expr[1]),
                                   Lit(expr[3])),
                               Lit(expr[5]))
    /\ (/\ Called
        /\ Len(expr) = 7
        /\ expr[1] = "(" /\ expr[5] = ")"
        /\ {expr[2], expr[4], expr[7]} \subseteq NumLits
        /\ {expr[3], expr[6]} \subseteq
               AdditiveLexemes \cup MultiplicativeLexemes)
          => result = Bin(BinOpName(expr[6]),
                          Bin(BinOpName(expr[3]), Lit(expr[2]),
                              Lit(expr[4])),
                          Lit(expr[7]))
    /\ (/\ Called
        /\ Len(expr) = 7
        /\ expr[3] = "(" /\ expr[7] = ")"
        /\ {expr[1], expr[4], expr[6]} \subseteq NumLits
        /\ {expr[2], expr[5]} \subseteq
               AdditiveLexemes \cup MultiplicativeLexemes)
          => result = Bin(BinOpName(expr[2]), Lit(expr[1]),
                          Bin(BinOpName(expr[5]), Lit(expr[4]),
                              Lit(expr[6])))

\* '2 + 3 * 4' was evaluated to 14
C9_Witness ==
    /\ expr = <<"2", "+", "3", "*", "4">>
    /\ result = Value(Num("int", 14, 1))

\* an optionally signed integer literal and the integer it denotes
SignedLit(u, a) == IF u = "" THEN <<a>> ELSE <<u, a>>
SignedInt(u, a) == IF u = "-" THEN -ConstValue(a).n ELSE ConstValue(a).n

\* C10: modulo is floor-based: for integers a and b # 0, 'a % b' yields r
\* with r = 0 or the sign of b, |r| < |b| and a - r divisible by b; and
\* '-7 % 3' evaluates to 2.
C10_FloorModulo ==
    /\ (Called /\ expr = <<"-", "7", "%", "3">>)
          => result = Value(Num("int", 2, 1))
    /\ (Called /\ Len(expr) \in 3 .. 5) =>
        \A u, v \in {"", "+", "-"} : \A a, b \in IntLits :
            (/\ expr = SignedLit(u, a) \o <<"%">> \o SignedLit(v, b)
             /\ SignedInt(v, b) # 0)
            => /\ result.kind = "Value"
               /\ result.val.ty = "int"
               /\ result.val.d = 1
               /\ LET r  == result.val.n
                      x  == SignedInt(u, a)
                      y  == SignedInt(v, b)
                  IN  /\ r = 0 \/ ((r > 0) = (y > 0))
                      /\ Abs(r) < Abs(y)
                      /\ (x - r) % Abs(y) = 0

\* '-7 % 3' was evaluated to 2
C10_Witness ==
    /\ expr = <<"-", "7", "%", "3">>
    /\ result = Value(Num("int", 2, 1))

\* ------------------------------------------------- claims on the sessions
\* the program was started without arguments
Interactive == Len(argv) = 0

ExprPrompts == {"top_prompt", "repl_prompt"}
ConfirmPrompts == {"top_confirm", "repl_confirm"}
Question == "Do you want another calculation? (y/n): "

\* the loop a prompt belongs to
LoopOf(p) == IF p \in {"top_prompt", "top_confirm"} THEN "top" ELSE "repl"

\* this step read a line at an expression prompt, or an answer at a
\* confirmation prompt
LineRead == pc \in ExprPrompts /\ input'.kind = "line"
AnswerRead == pc \in ConfirmPrompts /\ input'.kind = "line"

\* the answers that mean yes and no, in any letter case
YesAnswers == {<<"y">>, <<"yes">>, <<"YES">>}
NoAnswers == {<<"n">>, <<"no">>, <<"No">>}

\* C11: in both interactive loops every evaluation of a line, successful or
\* not, is followed by the question 'Do you want another calculation?
\* (y/n): ' before the next expression prompt; the answer y/yes in any
\* letter case returns to the expression prompt of the same loop, n/no ends
\* the session, and any other answer repeats the question without
\* evaluating anything.
C11_ConfirmationProtocol ==
    [][/\ (Interactive /\ Called') =>
              /\ pc \in ExprPrompts
              /\ pc' \in ConfirmPrompts
              /\ LoopOf(pc') = LoopOf(pc)
              /\ Prompt(pc') = Question
       /\ AnswerRead =>
              /\ ~Called'
              /\ IF Strip(input'.line) \in YesAnswers
                 THEN pc' \in ExprPrompts /\ LoopOf(pc') = LoopOf(pc)
                 ELSE IF Strip(input'.line) \in NoAnswers
                 THEN pc' = "exited" /\ status' = 0
                 ELSE pc' = pc /\ Prompt(pc') = Question]_vars

\* '1 / 0' failed at the prompt of the REPL loop, ' YES' was answered and
\* the program is back at that prompt
C11_Witness ==
    /\ pc = "repl_prompt"
    /\ s = <<"1", "/", "0">>
    /\ input = Returned(<<"YES">>)
    /\ ans = <<"yes">>

\* C12: in interactive mode a line that is not an expression of the Python
\* grammar (unbalanced parentheses, a trailing or unexpected token) is
\* reported with the message 'Invalid expression: syntax error', not with
\* the 'Invalid expression: <detail>' message of the validation failures.
C12_SyntaxErrorMessage ==
    (Interactive /\ Called /\ ~AstParse(expr).ok) =>
        out = <<Line("Invalid expression: syntax error")>>

\* C13: command-line mode evaluates the joined arguments exactly once and
\* never enters an interactive loop: on success it prints 'Answer is:
\* <value>' and exits with status zero, on any failure (syntax, validation,
\* division by zero, overflow or other) it prints 'Error: <message>' and
\* exits with a non-zero status.
C13_CommandLineMode ==
    ~Interactive =>
        /\ pc \in {"start", "exited"}
        /\ input = NoInput
        /\ pc = "exited" =>
              /\ Called
              /\ expr = Join(argv)
              /\ IF result.kind = "Value"
                 THEN out = <<AnswerIs(result.val)>> /\ status = 0
                 ELSE /\ out = <<Msg("Error:", NoVal, result.msg)>>
                      /\ status > 0

\* 'python calculator001.py 1e3 ** 1e3' overflowed, printed the error and
\* exited with status 1
C13_Witness ==
    /\ argv = <<<<"1e3">>, <<"**">>, <<"1e3">>>>
    /\ pc = "exited"
    /\ expr = <<"1e3", " ", "**", " ", "1e3">>
    /\ result.kind = "OverflowError"
    /\ out = <<Msg("Error:", NoVal, "(34, 'Numerical result out of range')")>>
    /\ status = 1

\* the lexemes written with at least one letter, and the lines that hold one
LetterLexemes == {"a", "quit", "QUIT", "exit", "y", "YES", "n", "No",
                  "import", "True", "1e3"}
HasLetter(t) == \E i \in 1 .. Len(t) : t[i] \in LetterLexemes

\* the lines that are the word quit or exit in some letter case
QuitWords == {<<"quit">>, <<"QUIT">>, <<"exit">>}

\* C14: in both interactive loops a line with an alphabetic character that
\* is not quit/exit is rejected with the message 'Only numbers and operators
\* are allowed' without a call of safe_eval, and the program returns to the
\* expression prompt of the same loop without asking the confirmation
\* question.
C14_LetterLinesRejected ==
    [][(/\ LineRead
        /\ HasLetter(Strip(input'.line))
        /\ Strip(input'.line) \notin QuitWords)
          => /\ ~Called'
             /\ out' = <<Line("Only numbers and operators are allowed")>>
             /\ pc' = pc
             /\ Prompt(pc') = "> "]_vars

\* ' 1+a ' was typed at the prompt of the REPL loop and rejected
C14_Witness ==
    /\ pc = "repl_prompt"
    /\ input = Returned(<<" ", "1", "+", "a", " ">>)
    /\ out = <<Line("Only numbers and operators are allowed")>>
    /\ ~Called

\* C16: safe_eval fails with the division-by-zero error exactly when the
\* evaluation reaches a / or % whose right operand evaluates to zero; no
\* other operator, ** with a zero base and a negative exponent included,
\* produces it.
C16_DivisionByZeroOnlyFromDivMod ==
    Called =>
        ((result.kind = "ZeroDivisionError")
            = (/\ AstParse(expr).ok
               /\ ReachesZeroDivisor(AstParse(expr).node.body)))

\* the lines that are empty once trimmed
BlankLines == {<<>>, <<" ">>}
ReplPositions == {"repl_prompt", "repl_confirm"}
Ended == {"exited", "crashed"}

\* C17: at the top-level prompt a blank line enters REPL mode; once REPL
\* mode ends, by quit/exit, by end of input or by the answer n/no, the
\* whole session ends and the top-level prompt is never shown again; at
\* the REPL prompt a blank line only prompts again, with no evaluation and
\* no confirmation question.
C17_BlankLineTransitions ==
    [][/\ (LineRead /\ pc = "top_prompt" /\ input'.line \in BlankLines)
              => pc' = "repl_prompt" /\ ~Called'
       /\ (LineRead /\ pc = "repl_prompt" /\ input'.line \in BlankLines)
              => pc' = "repl_prompt" /\ ~Called' /\ out' = <<>>
       /\ pc \in ReplPositions => pc' \in ReplPositions \cup Ended
       /\ (/\ pc \in ReplPositions
           /\ \/ LineRead /\ input'.line \in QuitWords
              \/ input'.kind \in Signals
              \/ AnswerRead /\ input'.line \in NoAnswers)
              => pc' \in Ended
       /\ pc \notin Ended]_vars

\* a blank line at the top-level prompt has opened the REPL loop
C17_Witness ==
    /\ pc = "repl_prompt"
    /\ input = Returned(<<" ">>)
    /\ s = <<>>
    /\ out = <<Line("Calculator REPL. Type 'quit' or 'exit' to leave.")>>

\* the lines that are quit or exit once trimmed
QuitLines == QuitWords \cup {<<" ">> \o w \o <<" ">> : w \in QuitWords}

\* C18: at the expression prompt of either loop a line that is quit or exit
\* in any letter case, once trimmed, ends the session at once: it is not
\* rejected for its letters, nothing is evaluated and no confirmation
\* question is asked; typed at the confirmation prompt the same words do
\* not end the session, the question is repeated.
C18_QuitWords ==
    [][/\ (LineRead /\ input'.line \in QuitLines)
              => /\ pc' = "exited"
                 /\ status' = 0
                 /\ out' = <<>>
                 /\ ~Called'
       /\ (AnswerRead /\ input'.line \in QuitLines)
              => /\ pc' = pc
                 /\ Prompt(pc') = Question
                 /\ ~Called']_vars

\* ' QUIT ' was typed at an expression prompt and the program has ended
C18_Witness ==
    /\ pc = "exited"
    /\ input = Returned(<<" ", "QUIT", " ">>)
    /\ s = <<"QUIT">>
    /\ out = <<>>
    /\ status = 0

====
